---- MODULE Spec2Model ----
\* State reconciliation engine of the download tracker bot (src/bot.py):
\* handle_messages, delete_all_messages, on_ready, the update_messages loop
\* task and the /refresh command, as coroutines of one asyncio event loop.
\* Every action runs one coroutine from the completion of the remote call it
\* awaits up to the next await (or to its end), which is the unit of
\* interleaving the event loop allows.
EXTENDS Integers, Sequences, FiniteSets, TLC

\* ---------------------------------------------------------------- bounds
\* Largest number of pages one cycle asks for.
MaxPages == 2
\* Number of distinct message handles alive or referenced at one time.
MaxMsgs == 3
\* Messages a previous run of the bot left in the channel.
MaxStale == 1
\* Gateway event handlers (on_ready, /refresh) in flight at one time, next to
\* the loop task.
MaxHandlers == 1
\* Items one upstream queue returns at most.
MaxItems == 6
\* Largest capacity split_embeds is called with, next to its default.
MaxCap == 3

\* ------------------------------------------------------------- constants
\* Embeds per message (the literal 10 of the batching, bot.py:277).
MAX_EMBEDS == 10
\* channel.history(limit=100), bot.py:25.
HISTORY_LIMIT == 100
\* query_sonarr / query_radarr (..., max_retries=5, delay=10), bot.py:60, 152.
max_retries == 5

None == 0
Ids == 1 .. MaxMsgs
Procs == {"ready", "tick", "refresh"}

\* Card counts a cycle may fetch: none, and for each page count the smallest
\* and the largest number of cards giving that many pages.
CardCounts ==
  {0} \cup {n \in 1 .. (MaxPages * MAX_EMBEDS) : n % MAX_EMBEDS \in {0, 1}}

\* Key of the placeholder in the operation log (page keys are 0, 1, ...).
EMPTY == -1

VARIABLES
  chan,             \* live messages of the channel, oldest first
  bot_messages,     \* the slot map, in insertion order: <<[key, msg], ...>>
  active,           \* msg_info['active'] of the dict created with each handle
  default_message,  \* the global placeholder reference (None or a handle)
  task,             \* update_messages._task: none, launched, running, sleeping, done
  stopNext,         \* update_messages._stop_next_iteration
  booted,           \* on_ready has fired at least once
  pc,               \* where each coroutine is suspended
  loc,              \* the locals of each coroutine
  hist,             \* per coroutine: what its current pass has done so far
  faulty,           \* the remote service may answer a call with an error
  cycle             \* the synchronous head of one cycle: the queries and the batching

vars == <<chan, bot_messages, active, default_message, task, stopNext, booted,
          pc, loc, hist, faulty, cycle>>

\* The variables of the message engine, and those of the fetch-and-batch head.
botvars == <<chan, bot_messages, active, default_message, task, stopNext, booted,
             pc, loc, hist, faulty>>

\* ------------------------------------------------------ sequences, slots
Range(s) == {s[j] : j \in DOMAIN s}

Reverse(s) == [j \in 1 .. Len(s) |-> s[Len(s) + 1 - j]]

Remove(s, m) == SelectSeq(s, LAMBDA x : x # m)

Min(a, b) == IF a < b THEN a ELSE b

Keys(bm) == {bm[j].key : j \in DOMAIN bm}

Msgs(bm) == {bm[j].msg : j \in DOMAIN bm}

HasKey(bm, k) == k \in Keys(bm)

Lookup(bm, k) == bm[CHOOSE j \in DOMAIN bm : bm[j].key = k].msg

\* bot_messages[k] = {'message': m, 'active': True}: a dict keeps the position
\* of a key it already holds and appends a new key.
SetKey(bm, k, m) ==
  IF HasKey(bm, k)
    THEN [j \in DOMAIN bm |-> IF bm[j].key = k THEN [key |-> k, msg |-> m] ELSE bm[j]]
    ELSE Append(bm, [key |-> k, msg |-> m])

\* del bot_messages[k]
DelKey(bm, k) == SelectSeq(bm, LAMBDA e : e.key # k)

\* for message_id in list(bot_messages.keys()): ...['active'] = False
MarkInactive(bm, act) == [m \in Ids |-> IF m \in Msgs(bm) THEN FALSE ELSE act[m]]

\* [embeds[i:i + 10] for i in range(0, len(embeds), 10)], as batch lengths.
batched_embeds(n) ==
  LET starts == {i \in 0 .. (n - 1) : i % MAX_EMBEDS = 0}
  IN [k \in 1 .. Cardinality(starts) |-> Min(MAX_EMBEDS, n - (k - 1) * MAX_EMBEDS)]

NumPages(n) == Len(batched_embeds(n))

\* ------------------------------------------------------------- locals
\* pages is len(batched_embeds) (0 when embeds is empty), all that
\* handle_messages reads of the fetched cards.
Loc0 == [pages |-> 0, dm |-> None, i |-> 0, cur |-> None, snap |-> <<>>, todo |-> <<>>]

\* Where a coroutine stands once it has run up to its next await: the await
\* it is suspended at (or returned / raised) and its locals there.
Cont(label, pages, dm, i, cur, snap, ret) ==
  [pc |-> label, pages |-> pages, dm |-> dm, i |-> i, cur |-> cur, snap |-> snap,
   ret |-> ret]

Hist0 == [n |-> 0, ops |-> <<>>, bm0 |-> <<>>, dm0 |-> None, overlap |-> FALSE,
          joined |-> FALSE, stopped |-> FALSE, res |-> "none"]

HMLabels == {"del_slot", "send_default", "del_default", "edit", "send_repl",
             "send_new", "del_stale"}

Busy == {p \in Procs : pc[p] \notin {"idle", "done"}}

InHM(p) == pc[p] \in HMLabels

\* The state as one record, and the handles some part of it still holds, in
\* a fixed order of traversal.
Cur ==
  [chan |-> chan, bm |-> bot_messages, act |-> active, dmsg |-> default_message,
   task |-> task, stop |-> stopNext, booted |-> booted, pc |-> pc, loc |-> loc,
   hist |-> hist]

MsgSeq(bm) == [j \in DOMAIN bm |-> bm[j].msg]

ProcOrder == <<"ready", "refresh", "tick">>

HeldBy(S, p) ==
  <<S.loc[p].dm, S.loc[p].cur>> \o MsgSeq(S.loc[p].snap) \o S.loc[p].todo
    \o MsgSeq(S.hist[p].bm0) \o <<S.hist[p].dm0>>

Held(S) ==
  S.chan \o MsgSeq(S.bm) \o <<S.dmsg>>
    \o HeldBy(S, ProcOrder[1]) \o HeldBy(S, ProcOrder[2]) \o HeldBy(S, ProcOrder[3])

Referenced == Range(Held(Cur)) \ {None}

Free == Ids \ Referenced

FreshId == CHOOSE m \in Free : \A o \in Free : m <= o

\* Handles are opaque: a state is kept up to the renaming of its handles that
\* numbers them in their order of first appearance in Held (the live messages
\* of the channel first, oldest first), and a handle nothing holds is forgotten.
FirstAt(T) == {j \in DOMAIN T : T[j] # None /\ \A k \in 1 .. (j - 1) : T[k] # T[j]}

Renaming(T, F) ==
  [m \in 0 .. MaxMsgs |->
     IF \E j \in F : T[j] = m
       THEN Cardinality({k \in F : k <= (CHOOSE j \in F : T[j] = m)})
       ELSE None]

RenSeq(ren, q) == [j \in DOMAIN q |-> ren[q[j]]]

RenMap(ren, bm) == [j \in DOMAIN bm |-> [key |-> bm[j].key, msg |-> ren[bm[j].msg]]]

\* Some pass is between its marking of the slots and the end of its cleanup,
\* or has just ended. The flags are read there only (every reader marks
\* first), so they are kept as they are there and as FALSE elsewhere.
Marked(S) ==
  \E q \in Procs : S.pc[q] \in {"edit", "send_repl", "send_new", "del_stale", "done"}

\* The next state is S, up to the renaming of handles.
Renamed(S) ==
  \E T \in {Held(S)} :
    \E F \in {FirstAt(T)} :
      \E ren \in {Renaming(T, F)} :
        /\ chan' = RenSeq(ren, S.chan)
        /\ bot_messages' = RenMap(ren, S.bm)
        /\ active' = [m \in Ids |-> Marked(S) /\ \E x \in Ids : ren[x] = m /\ S.act[x]]
        /\ default_message' = ren[S.dmsg]
        /\ task' = S.task
        /\ stopNext' = S.stop
        /\ booted' = S.booted
        /\ pc' = S.pc
        /\ loc' = [p \in Procs |->
                     [S.loc[p] EXCEPT !.dm = ren[@], !.cur = ren[@],
                                      !.snap = RenMap(ren, @), !.todo = RenSeq(ren, @)]]
        /\ hist' = [p \in Procs |->
                      [S.hist[p] EXCEPT !.bm0 = RenMap(ren, @), !.dm0 = ren[@]]]
        /\ UNCHANGED <<faulty, cycle>>

\* No finished handler waits for its frame to be dropped.
Settled == \A q \in Procs : pc[q] # "done"

\* A step of a coroutine: a finished handler's frame is dropped before
\* anything else runs.
Commit(S) == Settled /\ Renamed(S)

\* ------------------------------------------------- remote call outcomes
\* Forbidden, HTTPException with status 429, any other HTTPException: what a
\* call can raise besides NotFound, while the service answers with errors.
Failures == IF faulty THEN {"forbidden", "ratelimited", "other"} ELSE {}

\* channel.send: a new message, or Forbidden / HTTPException (429 included).
SendOutcomes == (IF Free # {} THEN {"ok"} ELSE {}) \cup Failures

\* message.edit / message.delete: NotFound exactly when the message is gone.
MsgOutcomes(m) == (IF m \in Range(chan) THEN {"ok"} ELSE {"notfound"}) \cup Failures

\* ------------------------------------------------------ handle_messages
\* An exception leaves handle_messages (only NotFound is caught inside it).
Raised(np, dm) == Cont("raised", np, dm, 0, None, <<>>, None)

\* A no-embeds branch that posts the placeholder whether or not one is passed in.
EmptyFromAlwaysSend(snap, np, dm) ==
  IF snap # <<>> THEN Cont("del_slot", np, dm, 0, None, snap, None)
  ELSE Cont("send_default", np, dm, 0, None, <<>>, None)

\* The no-embeds branch from the head of its delete loop: the next slot's
\* delete, then the placeholder unless one is passed in.
EmptyFrom(snap, np, dm) ==
  IF snap # <<>> THEN Cont("del_slot", np, dm, 0, None, snap, None)
  ELSE IF dm = None THEN Cont("send_default", np, dm, 0, None, <<>>, None)
  ELSE Cont("returned", np, dm, 0, None, <<>>, dm)

\* The cleanup loop from the head of its snapshot: slots whose dict is active
\* are skipped, the first inactive one gets its delete issued.
StaleFrom(snap, act, np, dm) ==
  LET idle == {j \in DOMAIN snap : ~act[snap[j].msg]}
  IN IF idle = {} THEN Cont("returned", np, dm, 0, None, <<>>, None)
     ELSE LET j == CHOOSE x \in idle : \A y \in idle : x <= y
          IN Cont("del_stale", np, dm, 0, None, SubSeq(snap, j, Len(snap)), None)

\* The page loop of a list-based scheme: every page is sent anew.
PagesFromAlwaysSend(bm, act, i, np, dm) ==
  IF i < np THEN Cont("send_new", np, dm, i, None, <<>>, None)
  ELSE StaleFrom(bm, act, np, dm)

\* A page loop that stops one page short and goes on to the cleanup.
PagesFromSkipLast(bm, act, i, np, dm) ==
  IF i + 1 < np
    THEN IF HasKey(bm, i) THEN Cont("edit", np, dm, i, Lookup(bm, i), <<>>, None)
         ELSE Cont("send_new", np, dm, i, None, <<>>, None)
    ELSE StaleFrom(bm, act, np, dm)

\* The page loop from index i: edit the slot the map holds for i, or send a
\* new message; past the last page, the cleanup loop over a fresh snapshot.
PagesFrom(bm, act, i, np, dm) ==
  IF i < np
    THEN IF HasKey(bm, i) THEN Cont("edit", np, dm, i, Lookup(bm, i), <<>>, None)
         ELSE Cont("send_new", np, dm, i, None, <<>>, None)
    ELSE StaleFrom(bm, act, np, dm)

\* The slot map if a deleted slot were never removed from it.
AfterSlotDeleteKept(bm, k, res) == bm

\* The slot map if a slot were dropped whatever its delete answered.
AfterSlotDeleteAlways(bm, k, res) == DelKey(bm, k)

\* What handle_messages leaves in the slot map after a slot's delete came back.
AfterSlotDelete(bm, k, res) == IF res = "ok" THEN DelKey(bm, k) ELSE bm

\* Where the no-embeds delete loop goes after a slot's delete came back:
\* on, after success (KeyError if the key is gone) or NotFound; out, otherwise.
EmptyNext(bm, snap, res, np, dm) ==
  IF res = "ok"
    THEN IF HasKey(bm, Head(snap).key) THEN EmptyFrom(Tail(snap), np, dm) ELSE Raised(np, dm)
  ELSE IF res = "notfound" THEN EmptyFrom(Tail(snap), np, dm)
  ELSE Raised(np, dm)

\* Where the cleanup loop goes after a stale slot's delete came back.
StaleNext(bm, act, snap, res, np, dm) ==
  IF res = "ok"
    THEN IF HasKey(bm, Head(snap).key) THEN StaleFrom(Tail(snap), act, np, dm) ELSE Raised(np, dm)
  ELSE IF res = "notfound" THEN StaleFrom(Tail(snap), act, np, dm)
  ELSE Raised(np, dm)

\* The page loop if NotFound on an edit were not caught.
EditNextNoFallback(bm, act, i, res, np, dm) ==
  IF res = "ok" /\ HasKey(bm, i)
    THEN PagesFrom(bm, [act EXCEPT ![Lookup(bm, i)] = TRUE], i + 1, np, dm)
    ELSE Raised(np, dm)

\* Where the page loop goes after the edit of page i came back.
EditNext(bm, act, i, res, np, dm) ==
  IF res = "ok"
    THEN IF HasKey(bm, i)
           THEN PagesFrom(bm, [act EXCEPT ![Lookup(bm, i)] = TRUE], i + 1, np, dm)
           ELSE Raised(np, dm)
  ELSE IF res = "notfound" THEN Cont("send_repl", np, dm, i, None, <<>>, None)
  ELSE Raised(np, dm)

\* The active flags after the edit of page i came back.
EditActive(bm, act, i, res) ==
  IF res = "ok" /\ HasKey(bm, i) THEN [act EXCEPT ![Lookup(bm, i)] = TRUE] ELSE act

\* The local default_message after the placeholder's delete came back.
AfterDefaultDelete(dm, res) == IF res = "ok" THEN None ELSE dm

\* The first step if the placeholder were left in place when cards arrive.
EnterContKeepDefault(bm, act, n, dm) ==
  IF n = 0 THEN EmptyFrom(bm, 0, dm)
  ELSE PagesFrom(bm, MarkInactive(bm, act), 0, NumPages(n), dm)

\* First step of handle_messages(channel, embeds, default_message).
EnterCont(bm, act, n, dm) ==
  IF n = 0 THEN EmptyFrom(bm, 0, dm)
  ELSE IF dm # None THEN Cont("del_default", NumPages(n), dm, 0, None, <<>>, None)
  ELSE PagesFrom(bm, MarkInactive(bm, act), 0, NumPages(n), dm)

EnterActive(bm, act, n, dm) ==
  IF n # 0 /\ dm = None THEN MarkInactive(bm, act) ELSE act

\* -------------------------------------------------- pass bookkeeping
Entry(op, key, res) == [op |-> op, key |-> key, res |-> res]

\* The log of a pass is kept while the pass runs alone.
Logged(p, e) == IF hist[p].overlap THEN hist ELSE [hist EXCEPT ![p].ops = Append(@, e)]

\* What is kept of a pass that shares the event loop with another handler.
Overlapped(h) ==
  [Hist0 EXCEPT !.overlap = TRUE, !.joined = h.joined, !.stopped = h.stopped]

\* A handler starts: every pass in flight is from now on an overlapped one,
\* and the handler has joined a pass if one is inside handle_messages.
Started(p) ==
  [q \in Procs |->
     IF q = p
       THEN IF Busy \ {p} # {}
              THEN [Hist0 EXCEPT !.overlap = TRUE,
                                 !.joined = \E r \in Busy \ {p} : InHM(r)]
              ELSE Hist0
     ELSE IF q \in Busy THEN Overlapped(hist[q])
     ELSE hist[q]]

\* handle_messages is entered: the pass remembers what it started from.
Entered(hs, p, n, dm) ==
  IF hs[p].overlap THEN hs
  ELSE [hs EXCEPT ![p].n = n, ![p].ops = <<>>, ![p].bm0 = bot_messages, ![p].dm0 = dm]

AllOk(ops) == \A j \in DOMAIN ops : ops[j].res = "ok"

\* ------------------------------------------------- the update_messages task
\* Loop.is_running(): a task exists and is not done.
IsRunning(t) == t \notin {"none", "done"}

\* Loop.stop(): lets the task finish the iteration it is in, or the one it
\* is sleeping towards, by setting _stop_next_iteration.
StopLoop(t, flag) == IF IsRunning(t) THEN TRUE ELSE flag

\* Loop.start(): RuntimeError while the previous task is not done.
CanStart(t) == ~IsRunning(t)

\* The task after an iteration's body: it ends if a stop was asked for,
\* and sleeps until the next tick otherwise.
AfterIteration(flag) == IF flag THEN "done" ELSE "sleeping"

\* ---------------------------------------------------- end of a handler
\* The caller's code after handle_messages: on_ready and refresh store the
\* result and start the loop (an exception skips both); update_messages
\* stores the result, or logs the exception, and the iteration is over.
StoredDefault(c) == IF c.pc = "returned" THEN c.ret ELSE default_message

\* The loop task if an exception in the body of an iteration ended it.
TaskAfterFailureStops(p, c) ==
  IF p = "tick" THEN (IF c.pc = "raised" THEN "done" ELSE AfterIteration(stopNext))
  ELSE IF c.pc = "returned" /\ CanStart(task) THEN "launched"
  ELSE task

TaskAfter(p, c) ==
  IF p = "tick" THEN AfterIteration(stopNext)
  ELSE IF c.pc = "returned" /\ CanStart(task) THEN "launched"
  ELSE task

Outcome(p, c) ==
  IF c.pc # "returned" THEN c.pc
  ELSE IF p # "tick" /\ ~CanStart(task) THEN "start_error"
  ELSE "returned"

Finish(p, ch, bm, act, c, hs) ==
  [Cur EXCEPT
     !.chan = ch, !.bm = bm, !.act = act,
     !.dmsg = StoredDefault(c),
     !.task = TaskAfter(p, c),
     !.stop = IF p = "tick" THEN FALSE ELSE stopNext,
     !.pc = [pc EXCEPT ![p] = "done"],
     !.loc = [loc EXCEPT ![p] = Loc0],
     !.hist = [q \in Procs |->
                 IF q = p THEN [hs[p] EXCEPT !.res = Outcome(p, c)]
                 ELSE [hs[q] EXCEPT !.joined = FALSE]]]

\* The coroutine p goes on to the point c with the shared state as given.
Advance(p, ch, bm, act, c, hs) ==
  IF c.pc \in {"returned", "raised"} THEN Finish(p, ch, bm, act, c, hs)
  ELSE
    [Cur EXCEPT
       !.chan = ch, !.bm = bm, !.act = act,
       !.task = IF p = "tick" THEN "running" ELSE task,
       !.pc = [pc EXCEPT ![p] = c.pc],
       !.loc = [loc EXCEPT ![p] = [pages |-> c.pages, dm |-> c.dm, i |-> c.i, cur |-> c.cur,
                                   snap |-> c.snap, todo |-> <<>>]],
       !.hist = hs]

\* handle_messages(channel, embeds, dm) is called by p and runs to its first await.
Enter(p, ch, n, dm, hs) ==
  Advance(p, ch, bot_messages, EnterActive(bot_messages, active, n, dm),
          EnterCont(bot_messages, active, n, dm), Entered(hs, p, n, dm))

\* A handler ends without having called handle_messages.
End(p, res, hs) ==
  [Cur EXCEPT !.pc = [pc EXCEPT ![p] = "done"],
              !.loc = [loc EXCEPT ![p] = Loc0],
              !.hist = [hs EXCEPT ![p].res = res]]

\* ------------------------------------------- steps of handle_messages
\* await msg_info['message'].delete() of the no-embeds branch comes back.
DelSlotDone(p) ==
  /\ pc[p] = "del_slot"
  /\ LET e == Head(loc[p].snap) IN
     \E res \in MsgOutcomes(e.msg) :
       Commit(Advance(p, IF res = "ok" THEN Remove(chan, e.msg) ELSE chan,
                      AfterSlotDelete(bot_messages, e.key, res), active,
                      EmptyNext(bot_messages, loc[p].snap, res, loc[p].pages, loc[p].dm),
                      Logged(p, Entry("delete", e.key, res))))

\* await channel.send("No active downloads currently.") comes back.
SendDefaultDone(p) ==
  /\ pc[p] = "send_default"
  /\ \E res \in SendOutcomes :
       Commit(Advance(p, IF res = "ok" THEN Append(chan, FreshId) ELSE chan,
                      bot_messages, active,
                      IF res = "ok"
                        THEN Cont("returned", loc[p].pages, loc[p].dm, 0, None, <<>>, FreshId)
                        ELSE Raised(loc[p].pages, loc[p].dm),
                      Logged(p, Entry("create", EMPTY, res))))

\* await default_message.delete() comes back.
DelDefaultDone(p) ==
  /\ pc[p] = "del_default"
  /\ \E res \in MsgOutcomes(loc[p].dm) :
       LET dm2 == AfterDefaultDelete(loc[p].dm, res)
           go == res \in {"ok", "notfound"}
       IN Commit(Advance(p, IF res = "ok" THEN Remove(chan, loc[p].dm) ELSE chan,
                         bot_messages,
                         IF go THEN MarkInactive(bot_messages, active) ELSE active,
                         IF go THEN PagesFrom(bot_messages,
                                              MarkInactive(bot_messages, active),
                                              0, loc[p].pages, dm2)
                               ELSE Raised(loc[p].pages, loc[p].dm),
                         Logged(p, Entry("delete", EMPTY, res))))

\* await msg.edit(embeds=embed_batch) comes back.
EditDone(p) ==
  /\ pc[p] = "edit"
  /\ \E res \in MsgOutcomes(loc[p].cur) :
       Commit(Advance(p, chan, bot_messages,
                      EditActive(bot_messages, active, loc[p].i, res),
                      EditNext(bot_messages, active, loc[p].i, res, loc[p].pages, loc[p].dm),
                      Logged(p, Entry("edit", loc[p].i, res))))

\* await channel.send(embeds=embed_batch) comes back: the replacement of a
\* message that was not found (send_repl) or a page without a slot (send_new).
SendPage(p) ==
  \E res \in SendOutcomes :
    LET new == FreshId
        bm2 == IF res = "ok" THEN SetKey(bot_messages, loc[p].i, new) ELSE bot_messages
        act2 == IF res = "ok" THEN [active EXCEPT ![new] = TRUE] ELSE active
    IN Commit(Advance(p, IF res = "ok" THEN Append(chan, new) ELSE chan, bm2, act2,
                      IF res = "ok"
                        THEN PagesFrom(bm2, act2, loc[p].i + 1, loc[p].pages, loc[p].dm)
                        ELSE Raised(loc[p].pages, loc[p].dm),
                      Logged(p, Entry("create", loc[p].i, res))))

SendReplDone(p) == pc[p] = "send_repl" /\ SendPage(p)

SendNewDone(p) == pc[p] = "send_new" /\ SendPage(p)

\* await msg_info['message'].delete() of the cleanup loop comes back.
DelStaleDone(p) ==
  /\ pc[p] = "del_stale"
  /\ LET e == Head(loc[p].snap) IN
     \E res \in MsgOutcomes(e.msg) :
       Commit(Advance(p, IF res = "ok" THEN Remove(chan, e.msg) ELSE chan,
                      AfterSlotDelete(bot_messages, e.key, res), active,
                      StaleNext(bot_messages, active, loc[p].snap, res, loc[p].pages, loc[p].dm),
                      Logged(p, Entry("delete", e.key, res))))

\* ------------------------------------------------- delete_all_messages
\* The loop over the fetched history from the head of todo: the next
\* message's delete is awaited; after the last one the caller fetches the
\* queues (no await) and calls handle_messages(channel, embeds).
ClearFrom(p, ch, todo) ==
  IF todo # <<>>
    THEN Commit([Cur EXCEPT !.chan = ch,
                            !.pc = [pc EXCEPT ![p] = "del_all"],
                            !.loc = [loc EXCEPT ![p] = [Loc0 EXCEPT !.todo = todo]]])
    ELSE \E n \in CardCounts : Commit(Enter(p, ch, n, None, hist))

\* channel.history(limit=100), newest message first.
FetchHistory(ch) == SubSeq(Reverse(ch), 1, Min(Len(ch), HISTORY_LIMIT))

\* The messages delete_all_messages still goes on to after one delete came
\* back: Forbidden and NotFound are caught per message, any other
\* DiscordException ends the loop.
ClearRest(todo, res) ==
  IF res \in {"ok", "forbidden", "notfound"} THEN Tail(todo) ELSE <<>>

\* The first page of channel.history() arrives, or the fetch fails.
HistoryDone(p) ==
  /\ pc[p] = "history"
  /\ \E res \in {"ok"} \cup (Failures \cap {"other"}) :
       ClearFrom(p, chan, IF res = "ok" THEN FetchHistory(chan) ELSE <<>>)

\* await message.delete() of delete_all_messages comes back.
DelAllDone(p) ==
  /\ pc[p] = "del_all"
  /\ LET m == Head(loc[p].todo) IN
     \E res \in MsgOutcomes(m) :
       ClearFrom(p, IF res = "ok" THEN Remove(chan, m) ELSE chan,
                 ClearRest(loc[p].todo, res))

\* ------------------------------------------------------------ on_ready
\* on_ready fires: the globals are reset, then the channel is cleared.
ReadyStart ==
  /\ pc["ready"] = "idle"
  /\ Cardinality(Busy \ {"tick"}) < MaxHandlers
  /\ \E found \in BOOLEAN :
       LET S == [Cur EXCEPT !.bm = <<>>, !.dmsg = None, !.booted = TRUE]
       IN IF found
            THEN Commit([S EXCEPT !.pc = [pc EXCEPT !["ready"] = "history"],
                                  !.hist = Started("ready")])
            ELSE Commit([S EXCEPT !.pc = [pc EXCEPT !["ready"] = "done"],
                                  !.hist = [Started("ready") EXCEPT
                                              !["ready"].res = "nochannel"]])

\* ------------------------------------------------------------ /refresh
\* The command arrives: interaction.response.send_message is awaited.
RefreshStart ==
  /\ pc["refresh"] = "idle"
  /\ booted
  /\ Cardinality(Busy \ {"tick"}) < MaxHandlers
  /\ Commit([Cur EXCEPT !.pc = [pc EXCEPT !["refresh"] = "respond"],
                        !.hist = Started("refresh")])

\* The response is sent (or fails, which ends the command): the loop is
\* asked to stop if it runs, and the channel is cleared.
RespondDone ==
  /\ pc["refresh"] = "respond"
  /\ \/ faulty /\ Commit(End("refresh", "no_response", hist))
     \/ \E found \in BOOLEAN :
          LET S == [Cur EXCEPT !.stop = StopLoop(task, stopNext),
                               !.hist = [hist EXCEPT !["refresh"].stopped = IsRunning(task)]]
          IN IF found
               THEN Commit([S EXCEPT !.pc = [pc EXCEPT !["refresh"] = "history"]])
               ELSE Commit([S EXCEPT !.pc = [pc EXCEPT !["refresh"] = "done"],
                                     !.hist = [S.hist EXCEPT !["refresh"].res = "nochannel"]])

\* ----------------------------------------------------- update_messages
\* One iteration of the loop: update_messages() up to its first await.
TickBody ==
  \E found \in BOOLEAN :
    IF found
      THEN \E n \in CardCounts :
             Commit(Enter("tick", chan, n, default_message, Started("tick")))
      ELSE Commit([End("tick", "nochannel", Started("tick")) EXCEPT
                     !.task = AfterIteration(stopNext), !.stop = FALSE])

\* The task created by start() gets to run: it ends at once if a stop was
\* asked for before its first iteration, and runs the first iteration otherwise.
LoopLaunch ==
  /\ task = "launched"
  /\ pc["tick"] = "idle"
  /\ IF stopNext THEN Commit([Cur EXCEPT !.task = "done", !.stop = FALSE])
     ELSE TickBody

\* The interval has passed: the sleeping task runs its next iteration.
LoopWake ==
  /\ task = "sleeping"
  /\ pc["tick"] = "idle"
  /\ TickBody

\* The frame of a finished handler is dropped.
Retire(p) ==
  /\ pc[p] = "done"
  /\ Renamed([Cur EXCEPT !.pc = [pc EXCEPT ![p] = "idle"],
                        !.loc = [loc EXCEPT ![p] = Loc0],
                        !.hist = [hist EXCEPT ![p] = Hist0]])

\* ------------------------------------ the queries and the batching
\* update_messages calls the four queries in this order (bot.py:409-412) ...
QueryOrder == <<"sonarr", "sonarr_anime", "radarr", "radarr_anime">>

\* ... and adds their lists to embeds in this one (bot.py:415-418).
CombineOrder == <<"sonarr", "radarr", "sonarr_anime", "radarr_anime">>

Sources == Range(QueryOrder)

\* The embeds a query builds from a json_data of k items: one per item, in
\* the order of the items.
Items(src, k) == [j \in 1 .. k |-> <<src, j>>]

\* Before the first query is called. retries and attempts are those of the
\* query that runs or has just returned (attempts counts its requests.get
\* calls); exhausted holds the sources that returned at "Max retries exceeded".
Cycle0 ==
  [pc |-> "call", src |-> 1, retries |-> 0, attempts |-> 0,
   got |-> [x \in Sources |-> <<>>], exhausted |-> {},
   embeds |-> <<>>, max_embeds |-> None, pages |-> <<>>]

\* s[a:b] of Python, for 0 <= a <= b.
Slice(s, a, b) == SubSeq(s, a + 1, Min(b, Len(s)))

\* list(range(0, n, step)), for step >= 1.
PyRange(n, step) ==
  LET starts == {i \in 0 .. (n - 1) : i % step = 0}
  IN [k \in 1 .. Cardinality(starts) |-> (k - 1) * step]

\* A batcher that drops a trailing page that is not full.
split_embeds_full_only(embeds, max_embeds) ==
  [k \in 1 .. (Len(embeds) \div max_embeds) |->
     Slice(embeds, (k - 1) * max_embeds, k * max_embeds)]

\* A batcher whose slices run one card into the next page.
split_embeds_overlap(embeds, max_embeds) ==
  LET r == PyRange(Len(embeds), max_embeds)
  IN [k \in DOMAIN r |-> Slice(embeds, r[k], r[k] + max_embeds + 1)]

\* [embeds[i:i + max_embeds] for i in range(0, len(embeds), max_embeds)]
split_embeds(embeds, max_embeds) ==
  LET r == PyRange(Len(embeds), max_embeds)
  IN [k \in DOMAIN r |-> Slice(embeds, r[k], r[k] + max_embeds)]

\* The batching of handle_messages if it dropped a page that is not full.
batched_full_only(embeds) == split_embeds_full_only(embeds, MAX_EMBEDS)

\* [embeds[i:i + 10] for i in range(0, len(embeds), 10)] of handle_messages.
batched(embeds) ==
  LET r == PyRange(Len(embeds), MAX_EMBEDS)
  IN [k \in DOMAIN r |-> Slice(embeds, r[k], r[k] + MAX_EMBEDS)]

\* Capacities split_embeds is called with: small ones and its default.
Capacities == (1 .. MaxCap) \cup {MAX_EMBEDS}

\* The query of source number c.src returns the list items: the next query
\* is called, or the lists are combined after the last one.
Returned(c, items, gaveup) ==
  [c EXCEPT !.pc = IF c.src < Len(QueryOrder) THEN "call" ELSE "combine",
            !.got = [@ EXCEPT ![QueryOrder[c.src]] = items],
            !.exhausted = IF gaveup THEN @ \cup {QueryOrder[c.src]} ELSE @,
            !.src = Min(c.src + 1, Len(QueryOrder))]

\* A retry loop that gives up one failure late.
AfterFailureOneMore(c) ==
  LET r == [c EXCEPT !.retries = @ + 1, !.attempts = @ + 1]
  IN IF r.retries <= max_retries THEN r ELSE Returned(r, <<>>, TRUE)

\* except RequestException: retries += 1, then the next turn of the loop
\* (after the sleep) or return [].
AfterFailure(c) ==
  LET r == [c EXCEPT !.retries = @ + 1, !.attempts = @ + 1]
  IN IF r.retries < max_retries THEN r ELSE Returned(r, <<>>, TRUE)

\* query_sonarr / query_radarr is called: retries = 0 and the first
\* requests.get is issued. The counters of the query before it are gone.
QueryCall ==
  /\ cycle.pc = "call"
  /\ cycle' = [cycle EXCEPT !.pc = "request", !.retries = 0, !.attempts = 0]
  /\ UNCHANGED botvars

\* requests.get and raise_for_status succeed: the loop is left and one embed
\* is built per item of the queue.
RequestOk ==
  /\ cycle.pc = "request"
  /\ \E k \in 0 .. MaxItems :
       cycle' = Returned([cycle EXCEPT !.attempts = @ + 1],
                         Items(QueryOrder[cycle.src], k), FALSE)
  /\ UNCHANGED botvars

\* requests.get or raise_for_status raises a RequestException.
RequestFail ==
  /\ cycle.pc = "request"
  /\ cycle' = AfterFailure(cycle)
  /\ UNCHANGED botvars

\* embeds += sonarr_embeds; += radarr_embeds; += sonarr_anime_embeds;
\* += radarr_anime_embeds.
Combine ==
  /\ cycle.pc = "combine"
  /\ cycle' = [cycle EXCEPT
                 !.pc = "batch",
                 !.embeds = cycle.got[CombineOrder[1]] \o cycle.got[CombineOrder[2]]
                              \o cycle.got[CombineOrder[3]] \o cycle.got[CombineOrder[4]]]
  /\ UNCHANGED botvars

\* handle_messages gets past `if not embeds` and batches the list.
Batch ==
  /\ cycle.pc = "batch"
  /\ cycle.embeds # <<>>
  /\ cycle' = [cycle EXCEPT !.pc = "batched", !.max_embeds = MAX_EMBEDS,
                            !.pages = batched(cycle.embeds)]
  /\ UNCHANGED botvars

\* split_embeds(embeds, max_embeds) is applied to the list.
SplitCall ==
  /\ cycle.pc = "batch"
  /\ \E c \in Capacities :
       cycle' = [cycle EXCEPT !.pc = "split", !.max_embeds = c,
                              !.pages = split_embeds(cycle.embeds, c)]
  /\ UNCHANGED botvars

\* ------------------------------------------------------- specification
\* The process has started and on_ready has not fired yet.
Boot ==
  /\ \E k \in 0 .. MaxStale : chan = [j \in 1 .. k |-> j]
  /\ bot_messages = <<>>
  /\ active = [m \in Ids |-> FALSE]
  /\ default_message = None
  /\ task = "none"
  /\ stopNext = FALSE
  /\ booted = FALSE
  /\ pc = [p \in Procs |-> "idle"]
  /\ loc = [p \in Procs |-> Loc0]
  /\ hist = [p \in Procs |-> Hist0]

Init == Boot /\ faulty = TRUE /\ cycle = Cycle0

Next ==
  \/ ReadyStart
  \/ RefreshStart
  \/ RespondDone
  \/ LoopLaunch
  \/ LoopWake
  \/ \E p \in {"ready", "refresh"} : HistoryDone(p)
  \/ \E p \in {"ready", "refresh"} : DelAllDone(p)
  \/ \E p \in Procs : DelSlotDone(p)
  \/ \E p \in Procs : SendDefaultDone(p)
  \/ \E p \in Procs : DelDefaultDone(p)
  \/ \E p \in Procs : EditDone(p)
  \/ \E p \in Procs : SendReplDone(p)
  \/ \E p \in Procs : SendNewDone(p)
  \/ \E p \in Procs : DelStaleDone(p)
  \/ \E p \in Procs : Retire(p)

Spec == Init /\ [][Next]_vars

\* The same program in one uninterrupted gateway session (on_ready fires
\* once) against a service that answers every call (a call on a message that
\* is gone still reports NotFound): what is left is the loop and /refresh.
InitCalm == Boot /\ faulty = FALSE /\ cycle = Cycle0

FirstReady == ~booted /\ ReadyStart

NextCalm ==
  \/ FirstReady
  \/ RefreshStart
  \/ RespondDone
  \/ LoopLaunch
  \/ LoopWake
  \/ \E p \in {"ready", "refresh"} : HistoryDone(p)
  \/ \E p \in {"ready", "refresh"} : DelAllDone(p)
  \/ \E p \in Procs : DelSlotDone(p)
  \/ \E p \in Procs : SendDefaultDone(p)
  \/ \E p \in Procs : DelDefaultDone(p)
  \/ \E p \in Procs : EditDone(p)
  \/ \E p \in Procs : SendReplDone(p)
  \/ \E p \in Procs : SendNewDone(p)
  \/ \E p \in Procs : DelStaleDone(p)
  \/ \E p \in Procs : Retire(p)

SpecCalm == InitCalm /\ [][NextCalm]_vars

\* The head of one update_messages cycle on its own: the four queries with
\* their retries, the combined list and its batching.
InitCycle == Boot /\ chan = <<>> /\ faulty = TRUE /\ cycle = Cycle0

NextCycle ==
  \/ QueryCall
  \/ RequestOk
  \/ RequestFail
  \/ Combine
  \/ Batch
  \/ SplitCall

SpecCycle == InitCycle /\ [][NextCycle]_vars

\* ================================================================ claims
Done(p) == pc[p] = "done"

\* p's handler has just ended and its handle_messages pass ran alone.
Ran(p) == Done(p) /\ ~hist[p].overlap /\ hist[p].res \in {"returned", "raised", "start_error"}

\* ... and the pass ran to its end.
Completed(p) == Ran(p) /\ hist[p].res # "raised"

\* ... with every remote call it made succeeding.
CleanPass(p) == Completed(p) /\ AllOk(hist[p].ops)

CeilDiv(n, c) == (n + c - 1) \div c

PageKeys(np) == 0 .. (np - 1)

Count(ops, op) == Cardinality({j \in DOMAIN ops : ops[j].op = op})

CountAt(ops, op, k) == Cardinality({j \in DOMAIN ops : ops[j].op = op /\ ops[j].key = k})

\* C1 (as claimed): whenever a handler has just ended (a cycle boundary), the
\* placeholder reference and page slots are not both present.
C1_MutualExclusion ==
  (\E p \in Procs : Done(p)) => ~(default_message # None /\ bot_messages # <<>>)

\* C2 (as claimed): a /refresh that arrived while a pass was suspended inside
\* handle_messages does not clear the channel or enter handle_messages
\* before that pass has ended.
C2_NonOverlap ==
  hist["refresh"].joined => pc["refresh"] \notin ({"history", "del_all"} \cup HMLabels)

\* C3 (as claimed): a scheduled cycle that ran alone, with every remote call it
\* made succeeding, leaves ceil(N/10) live tracked pages and no live placeholder
\* when N >= 1, and a live tracked placeholder and no page when N = 0.
C3_Convergence ==
  CleanPass("tick") =>
    LET n == hist["tick"].n
        live == Msgs(bot_messages) \cap Range(chan)
    IN IF n >= 1
         THEN Cardinality(live) = CeilDiv(n, MAX_EMBEDS) /\ default_message \notin Range(chan)
         ELSE default_message \in Range(chan) /\ live = {}

\* C4 (as claimed): whatever failed in a pass over P desired pages, every page
\* index below P had its edit or create issued in that pass.
C4_FailureIsolation ==
  \A p \in Procs :
    (Ran(p) /\ hist[p].n >= 1) =>
      \A i \in PageKeys(CeilDiv(hist[p].n, MAX_EMBEDS)) :
        \E j \in DOMAIN hist[p].ops :
          hist[p].ops[j].key = i /\ hist[p].ops[j].op \in {"edit", "create"}

\* C5: a clean pass over N >= 1 cards leaves exactly the slots 0..P-1 and no
\* placeholder; and a clean pass that starts from such a state (the same list
\* reconciled again) makes one edit per page, no create and no delete, and
\* leaves the slot map, keys and handles, as it found it.
C5_Idempotence ==
  \A p \in Procs :
    (CleanPass(p) /\ hist[p].n >= 1) =>
      LET np == CeilDiv(hist[p].n, MAX_EMBEDS)
          ops == hist[p].ops
      IN /\ Keys(bot_messages) = PageKeys(np)
         /\ Len(bot_messages) = np
         /\ default_message = None
         /\ (Keys(hist[p].bm0) = PageKeys(np) /\ hist[p].dm0 = None) =>
              /\ Count(ops, "create") = 0
              /\ Count(ops, "delete") = 0
              /\ Len(ops) = np
              /\ \A i \in PageKeys(np) : CountAt(ops, "edit", i) = 1
              /\ bot_messages = hist[p].bm0

C5_Witness ==
  \E p \in Procs :
    /\ CleanPass(p)
    /\ hist[p].n > MAX_EMBEDS
    /\ Keys(hist[p].bm0) = PageKeys(CeilDiv(hist[p].n, MAX_EMBEDS))
    /\ hist[p].dm0 = None
    /\ Count(hist[p].ops, "edit") = 2

\* C6: a clean pass over P2 >= 1 pages that starts from what a clean pass over
\* P1 > P2 pages left (slots 0..P1-1, no placeholder) makes P1-P2 deletes,
\* P2 edits and no create, and leaves the slots 0..P2-1 with their handles.
C6_ShrinkCleanup ==
  \A p \in Procs :
    LET np == CeilDiv(hist[p].n, MAX_EMBEDS)
        bm0 == hist[p].bm0
        ops == hist[p].ops
    IN (/\ CleanPass(p)
        /\ hist[p].n >= 1
        /\ hist[p].dm0 = None
        /\ Keys(bm0) = PageKeys(Len(bm0))
        /\ Len(bm0) > np) =>
         /\ Count(ops, "delete") = Len(bm0) - np
         /\ Count(ops, "edit") = np
         /\ Count(ops, "create") = 0
         /\ bot_messages = SelectSeq(bm0, LAMBDA e : e.key < np)

C6_Witness ==
  \E p \in Procs :
    /\ CleanPass(p)
    /\ hist[p].n >= 1
    /\ hist[p].dm0 = None
    /\ Keys(hist[p].bm0) = PageKeys(Len(hist[p].bm0))
    /\ Len(hist[p].bm0) > CeilDiv(hist[p].n, MAX_EMBEDS)
    /\ Count(hist[p].ops, "delete") = 1

\* C7 (as claimed): after a pass that ran to its end, the slot map holds no
\* slot the pass did not mark active: only keys of desired pages remain.
C7_StaleRemoved ==
  \A p \in Procs :
    Completed(p) => Keys(bot_messages) \subseteq PageKeys(CeilDiv(hist[p].n, MAX_EMBEDS))

\* C8: in a pass that runs alone, an edit of page i that reports not-found is
\* followed at once by a create for page i, the only create for i in the pass;
\* when that create returns a handle, the map holds one entry for key i, bound
\* to the new, live handle and marked active, and holds the old handle nowhere.
C8_NotFoundRecovery ==
  \A p \in Procs :
    ~hist[p].overlap =>
      LET ops == hist[p].ops IN
      \A j \in DOMAIN ops :
        (ops[j].op = "edit" /\ ops[j].res = "notfound") =>
          LET i == ops[j].key
              old == Lookup(hist[p].bm0, i)
          IN IF j = Len(ops)
               THEN pc[p] = "send_repl" /\ loc[p].i = i /\ CountAt(ops, "create", i) = 0
               ELSE /\ ops[j + 1].op = "create"
                    /\ ops[j + 1].key = i
                    /\ CountAt(ops, "create", i) = 1
                    /\ ops[j + 1].res = "ok" =>
                         /\ Cardinality({k \in DOMAIN bot_messages :
                                           bot_messages[k].key = i}) = 1
                         /\ Lookup(bot_messages, i) # old
                         /\ Lookup(bot_messages, i) \in Range(chan)
                         /\ active[Lookup(bot_messages, i)]
                         /\ old \notin Msgs(bot_messages)

C8_Witness ==
  \E p \in Procs :
    /\ Completed(p)
    /\ \E j \in 1 .. (Len(hist[p].ops) - 1) :
         /\ hist[p].ops[j].op = "edit"
         /\ hist[p].ops[j].res = "notfound"
         /\ hist[p].ops[j + 1].op = "create"
         /\ hist[p].ops[j + 1].res = "ok"

\* C9 (as claimed): in the log of a pass that has ended, a rate-limited call is
\* either followed by a retry of the same call, or is itself that retry.
C9_RateLimitRetry ==
  \A p \in Procs :
    Ran(p) =>
      LET ops == hist[p].ops
          Same(a, b) == ops[a].op = ops[b].op /\ ops[a].key = ops[b].key
      IN \A j \in DOMAIN ops :
           ops[j].res = "ratelimited" =>
             \/ j < Len(ops) /\ Same(j, j + 1)
             \/ j > 1 /\ Same(j, j - 1) /\ ops[j - 1].res = "ratelimited"

\* C10: a pass that runs to its end from the placeholder alone (no slot) with
\* 1 to 10 cards makes two remote calls, the delete of the placeholder and
\* then the create of page 0, and leaves no placeholder and the one slot 0.
C10_EmptyToNonEmpty ==
  \A p \in Procs :
    (/\ Completed(p)
     /\ hist[p].bm0 = <<>>
     /\ hist[p].dm0 # None
     /\ hist[p].n \in 1 .. MAX_EMBEDS) =>
      /\ Len(hist[p].ops) = 2
      /\ hist[p].ops[1].op = "delete" /\ hist[p].ops[1].key = EMPTY
      /\ hist[p].ops[2] = Entry("create", 0, "ok")
      /\ default_message = None
      /\ Len(bot_messages) = 1
      /\ Keys(bot_messages) = {0}

C10_Witness ==
  \E p \in Procs :
    /\ Completed(p)
    /\ hist[p].bm0 = <<>>
    /\ hist[p].dm0 # None
    /\ hist[p].n \in 1 .. MAX_EMBEDS
    /\ hist[p].ops = <<Entry("delete", EMPTY, "ok"), Entry("create", 0, "ok")>>

\* C11 (as claimed): a pass with zero items that starts from k page slots and
\* no placeholder issues a delete for each of the k slots, whatever the
\* deletes before it answered, and then the create of the placeholder.
C11_BestEffortCleanup ==
  \A p \in Procs :
    (Ran(p) /\ hist[p].n = 0 /\ hist[p].bm0 # <<>> /\ hist[p].dm0 = None) =>
      /\ \A k \in Keys(hist[p].bm0) : CountAt(hist[p].ops, "delete", k) >= 1
      /\ CountAt(hist[p].ops, "create", EMPTY) >= 1

\* C12: when an iteration of update_messages ends with an exception out of
\* handle_messages and no stop of the loop has been asked for, the loop task
\* goes to sleep towards its next iteration: the failure does not end it.
C12_FailedCycleRetried ==
  [][(/\ InHM("tick")
      /\ pc'["tick"] = "done"
      /\ hist'["tick"].res = "raised"
      /\ ~stopNext) => (task' = "sleeping" /\ ~stopNext')]_vars

C12_Witness ==
  /\ Done("tick")
  /\ hist["tick"].res = "raised"
  /\ ~hist["tick"].overlap
  /\ \E j \in DOMAIN hist["tick"].ops : hist["tick"].ops[j].res \in Failures
  /\ task = "sleeping"

\* C13: batching N cards with capacity 10 gives ceil(N/10) pages, each of 1 to
\* 10 cards, and no page for N = 0; the page sizes are those the message
\* engine works with.
C13_Capacity ==
  (cycle.pc \in {"batched", "split"} /\ cycle.max_embeds = MAX_EMBEDS) =>
    LET n == Len(cycle.embeds)
        pages == cycle.pages
    IN /\ Len(pages) = CeilDiv(n, MAX_EMBEDS)
       /\ \A j \in DOMAIN pages : Len(pages[j]) \in 1 .. MAX_EMBEDS
       /\ n = 0 => pages = <<>>
       /\ [j \in DOMAIN pages |-> Len(pages[j])] = batched_embeds(n)
       /\ Len(pages) = NumPages(n)

C13_Witness ==
  /\ cycle.pc = "batched"
  /\ Len(cycle.embeds) = 2 * MAX_EMBEDS + 1
  /\ Len(cycle.pages) = 3
  /\ Len(cycle.pages[3]) = 1

RECURSIVE Flatten(_)
Flatten(pages) == IF pages = <<>> THEN <<>> ELSE Head(pages) \o Flatten(Tail(pages))

\* C14: for every list and capacity c, page i (from 0) holds the cards at the
\* positions i*c up to (i+1)*c of the list, in their order, and the pages put
\* end to end are the list.
C14_Partition ==
  cycle.pc \in {"batched", "split"} =>
    LET c == cycle.max_embeds
        e == cycle.embeds
        pages == cycle.pages
    IN /\ \A j \in DOMAIN pages :
            pages[j] = [t \in 1 .. Min(c, Len(e) - (j - 1) * c) |-> e[(j - 1) * c + t]]
       /\ Flatten(pages) = e

C14_Witness ==
  /\ cycle.pc = "split"
  /\ cycle.max_embeds \in 2 .. MaxCap
  /\ Len(cycle.embeds) % cycle.max_embeds # 0
  /\ Len(cycle.pages) >= 3
  /\ Cardinality({cycle.embeds[j][1] : j \in DOMAIN cycle.embeds}) >= 2

\* The source whose query has returned last.
LastSource ==
  IF cycle.pc = "call" THEN QueryOrder[cycle.src - 1] ELSE QueryOrder[Len(QueryOrder)]

\* The lists of the sources, end to end in the order update_messages adds them.
Combined(got) ==
  got[CombineOrder[1]] \o got[CombineOrder[2]] \o got[CombineOrder[3]] \o got[CombineOrder[4]]

\* C15: a query issues at most 5 requests; after the 5th failure it has
\* returned, with an empty list; and the list the cycle goes on to batch is made
\* of the lists of the other sources.
C15_BoundedRetry ==
  /\ cycle.attempts <= max_retries
  /\ cycle.retries = max_retries =>
       /\ cycle.pc # "request"
       /\ cycle.attempts = max_retries
       /\ LastSource \in cycle.exhausted
  /\ \A x \in cycle.exhausted : cycle.got[x] = <<>>
  /\ cycle.pc \in {"batch", "batched", "split"} =>
       /\ cycle.embeds = Combined(cycle.got)
       /\ \A j \in DOMAIN cycle.embeds : cycle.embeds[j][1] \notin cycle.exhausted
       /\ Len(cycle.embeds) =
            Len(cycle.got["sonarr"]) + Len(cycle.got["sonarr_anime"])
              + Len(cycle.got["radarr"]) + Len(cycle.got["radarr_anime"])

C15_Witness ==
  /\ cycle.pc = "batched"
  /\ "sonarr" \in cycle.exhausted
  /\ cycle.retries = max_retries
  /\ cycle.embeds # <<>>

\* A pass of p that runs alone, in flight inside handle_messages or just ended.
Alone(p) == ~hist[p].overlap /\ (InHM(p) \/ Ran(p))

PageOp(e) == e.op \in {"edit", "create"} /\ e.key # EMPTY

\* C16: in a pass over P >= 1 pages, the edits and creates of pages come in
\* ascending page index (two calls for one page only as an edit that reported
\* not-found and the create replacing it), and a delete of a slot comes only
\* after every edit or create, that of page P-1 among them.
C16_OperationOrder ==
  \A p \in Procs :
    (Alone(p) /\ hist[p].n >= 1) =>
      LET ops == hist[p].ops
          np == CeilDiv(hist[p].n, MAX_EMBEDS)
      IN /\ \A j, k \in DOMAIN ops :
              (j < k /\ PageOp(ops[j]) /\ PageOp(ops[k])) =>
                \/ ops[j].key < ops[k].key
                \/ /\ ops[j].key = ops[k].key
                   /\ k = j + 1
                   /\ ops[j].op = "edit" /\ ops[j].res = "notfound"
                   /\ ops[k].op = "create"
         /\ \A j \in DOMAIN ops :
              (ops[j].op = "delete" /\ ops[j].key # EMPTY) =>
                /\ \E k \in 1 .. (j - 1) : PageOp(ops[k]) /\ ops[k].key = np - 1
                /\ \A k \in DOMAIN ops : PageOp(ops[k]) => k < j
                /\ ops[j].key >= np

C16_Witness ==
  \E p \in Procs :
    /\ Completed(p)
    /\ hist[p].n >= 1
    /\ \E j, k \in DOMAIN hist[p].ops :
         /\ j < k
         /\ PageOp(hist[p].ops[j])
         /\ hist[p].ops[k].op = "delete" /\ hist[p].ops[k].key # EMPTY

Last(ops) == ops[Len(ops)]

\* C17: when the edit or the delete of a slot comes back with Forbidden in a
\* pass that runs alone, the step leaves the slot map as it was, with the key
\* still bound to the handle the call was made on, and the pass ends there:
\* the call is not issued again.
C17_ForbiddenFrame ==
  [][\A p \in Procs :
       (/\ ~hist[p].overlap
        /\ InHM(p)
        /\ Len(hist'[p].ops) = Len(hist[p].ops) + 1
        /\ Last(hist'[p].ops).res = "forbidden"
        /\ Last(hist'[p].ops).op \in {"edit", "delete"}
        /\ Last(hist'[p].ops).key # EMPTY) =>
         LET k == Last(hist'[p].ops).key
             m == IF pc[p] = "edit" THEN loc[p].cur ELSE Head(loc[p].snap).msg
         IN /\ bot_messages' = bot_messages
            /\ HasKey(bot_messages', k)
            /\ Lookup(bot_messages', k) = m
            /\ pc'[p] = "done"
            /\ hist'[p].res = "raised"]_vars

C17_Witness ==
  \E p \in Procs :
    /\ Ran(p)
    /\ hist[p].ops # <<>>
    /\ Last(hist[p].ops).res = "forbidden"
    /\ Last(hist[p].ops).op = "delete"
    /\ Last(hist[p].ops).key # EMPTY
    /\ hist[p].n >= 1
    /\ Lookup(bot_messages, Last(hist[p].ops).key) = Lookup(hist[p].bm0, Last(hist[p].ops).key)

\* Handles the bot keeps track of: the slots' and the placeholder's.
Tracked == Msgs(bot_messages) \cup ({default_message} \ {None})

\* C18 (as claimed): with every remote call answered, once the loop has been
\* started and no handler is in flight, every live message of the channel is
\* tracked: none is a second message of a page or an orphan.
C18_NoOrphans ==
  (task # "none" /\ Busy = {} /\ Settled) => Range(chan) \subseteq Tracked

\* C19 (as claimed): when a /refresh that has stopped the loop and gone on to
\* clear and reconcile ends, the loop task is alive and not asked to stop, so
\* that it goes on ticking: the refresh has resumed the polling it stopped.
C19_RefreshResumes ==
  (/\ Done("refresh")
   /\ hist["refresh"].stopped
   /\ hist["refresh"].res \in {"returned", "raised", "start_error"}) =>
    (IsRunning(task) /\ ~stopNext)

\* C20 (as claimed): when a pass starts (it runs alone and has issued no call
\* yet), every handle of the slot map and the placeholder reference, the one
\* passed in and the global one, is that of a message still in the channel.
C20_TrackedNotDeleted ==
  \A p \in Procs :
    (Alone(p) /\ hist[p].ops = <<>>) =>
      (Msgs(hist[p].bm0) \cup ({hist[p].dm0, default_message} \ {None})) \subseteq Range(chan)

\* C21: a pass with zero items that starts with a placeholder passed in and no
\* slot never waits on a remote call: it has ended on the spot, with no call
\* issued, no slot, and the placeholder reference it started with.
C21_PlaceholderKept ==
  \A p \in Procs :
    (/\ Alone(p)
     /\ hist[p].n = 0
     /\ hist[p].bm0 = <<>>
     /\ hist[p].dm0 # None) =>
      /\ Ran(p)
      /\ hist[p].res = "returned"
      /\ hist[p].ops = <<>>
      /\ bot_messages = <<>>
      /\ default_message = hist[p].dm0

C21_Witness ==
  /\ Ran("tick")
  /\ hist["tick"].n = 0
  /\ hist["tick"].bm0 = <<>>
  /\ hist["tick"].dm0 # None
  /\ hist["tick"].dm0 \in Range(chan)
  /\ hist["tick"].ops = <<>>
  /\ default_message = hist["tick"].dm0
  /\ Len(chan) = 1

====
